---- MODULE Spec2Model ----
(***************************************************************************)
(* OpenCongress: the embedding / hierarchical-summarisation pipeline and   *)
(* its job tracker.                                                        *)
(*                                                                         *)
(*   backend/background_jobs.py        EmbeddingJobManager,                *)
(*                                     run_embedding_job, get_or_create_job*)
(*   backend/bill_rag_embedder.py      BillRAGEmbedder.embed_bill          *)
(*   backend/hierarchical_summarizer.py HierarchicalSummarizer             *)
(*   backend/api/routes/bills.py       embed_bill route                    *)
(*                                                                         *)
(* Every await of the coroutines is one atomic step; the synchronous code  *)
(* between two awaits is part of the step that follows it.  Every external *)
(* call (database, download, embedding, generation) either returns or      *)
(* raises.                                                                 *)
(***************************************************************************)
EXTENDS Integers, Sequences, FiniteSets, TLC

(***************************************************************************)
(* Bounds of the model.                                                    *)
(***************************************************************************)
\* number of embed requests (and so of jobs and pipelines) that are issued
MaxReq == 2
\* longest chunk stream a document yields
MaxChunks == 3
\* batch_size of embed_bill (run_embedding_job passes 64; scaled to the
\* length of the streams of the model)
batch_size == 2
\* the clock stops advancing after MaxTime minutes
MaxTime == 31
\* minutes the clock advances in one step
TickMinutes == 31
\* pages each chunk of a stream spans
PagesPerChunk == 25
\* number of job-tracker operations callers issue in SpecTracker
MaxOps == 5
\* minutes the clock of SpecTracker may advance in one step, besides TickMinutes
TrackerTickMinutes == 15
\* SpecChunker: pages of the longest page stream
MaxPages == 3
\* SpecChunker: characters of the longest cleaned page text
MaxPageLen == 3
\* SpecChunker: largest chunk_chars, overlap_chars and bucket_size
MaxChunkChars == 4
MaxOverlapChars == 2
MaxBucketSize == 2
\* the 200 characters _find_break_point searches on either side of the
\* target, scaled to the chunk sizes of the model
SearchRadius == 2
\* SpecChunker: the assembler is not resumed after it has yielded this many chunks
\* SpecStatus: the most pages a polled job has
MaxStatusPages == 50
MaxEmitted == 6

(***************************************************************************)
(* Program constants.                                                      *)
(***************************************************************************)
\* significant bits of a Python float (IEEE 754 binary64)
MantissaBits == 53
\* get_or_create_job: started_at > now() - interval '30 minutes'
RecencyWindow == 30
\* StreamingPDFProcessor(bucket_size=50)
bucket_size == 50

\* SQL NULL of an integer / timestamp column, Python None of an int argument
Null == -1
\* SQL NULL of a text or boolean column, Python None of such an argument
NoText == "NULL"

TheDoc == "hr1"
Docs == {"hr1", "s2"}
Reqs == 1..MaxReq

Min(a, b) == IF a < b THEN a ELSE b
Max(a, b) == IF a > b THEN a ELSE b

(***************************************************************************)
(* EmbeddingJobManager: the rows of bill_embedding_jobs, job_id = index.   *)
(* The operators take the table J and return the table after the           *)
(* statement; an UPDATE whose WHERE matches no row changes nothing.        *)
(***************************************************************************)
NewJob(doc, total_pages, t) ==
    [doc |-> doc, status |-> "pending", total_pages |-> total_pages,
     pages_processed |-> Null, chunks_embedded |-> Null,
     map_summaries_done |-> Null, reduce_done |-> NoText,
     error_message |-> NoText, started_at |-> t, completed_at |-> Null]

create_job(J, doc, total_pages, t) == Append(J, NewJob(doc, total_pages, t))

\* an update_status whose UPDATE matches no row
update_status_nothing_written(J, job_id, status, error_message, t) == J

\* an update_status whose UPDATE leaves completed and failed jobs alone
update_status_terminal_kept(J, job_id, status, error_message, t) ==
    IF job_id \notin DOMAIN J \/ J[job_id].status \in {"completed", "failed"} THEN J
    ELSE [J EXCEPT ![job_id] = [@ EXCEPT !.status = status,
                                         !.completed_at = IF status = "processing" THEN @ ELSE t,
                                         !.error_message = error_message]]

update_status(J, job_id, status, error_message, t) ==
    IF job_id \notin DOMAIN J THEN J
    ELSE IF status \in {"completed", "failed"}
         THEN [J EXCEPT ![job_id] = [@ EXCEPT !.status = status,
                                              !.completed_at = t,
                                              !.error_message = error_message]]
         ELSE [J EXCEPT ![job_id] = [@ EXCEPT !.status = status,
                                              !.error_message = error_message]]

\* a complete_job that ignores its success argument
complete_job_always_completed(J, job_id, success, error, t) ==
    update_status(J, job_id, "completed", error, t)

complete_job(J, job_id, success, error, t) ==
    update_status(J, job_id, IF success THEN "completed" ELSE "failed", error, t)

\* BillRAGEmbedder._update_job_progress: the fields that are not None, and
\* status = 'processing', in one UPDATE; no UPDATE when all are None.
Embedder_update_job_progress(J, job_id, total_pages, pages_processed, chunks_embedded) ==
    IF job_id \notin DOMAIN J THEN J
    ELSE IF total_pages = Null /\ pages_processed = Null /\ chunks_embedded = Null
         THEN J
         ELSE [J EXCEPT ![job_id] =
                 [@ EXCEPT !.total_pages = IF total_pages # Null THEN total_pages ELSE @,
                           !.pages_processed = IF pages_processed # Null THEN pages_processed ELSE @,
                           !.chunks_embedded = IF chunks_embedded # Null THEN chunks_embedded ELSE @,
                           !.status = "processing"]]

\* a summarizer that never writes its progress
Summarizer_update_job_progress_nothing_written(J, job_id, map_summaries_done, reduce_done) == J

\* HierarchicalSummarizer._update_job_progress: the fields that are not None;
\* the status column is not part of this UPDATE.
Summarizer_update_job_progress(J, job_id, map_summaries_done, reduce_done) ==
    IF job_id \notin DOMAIN J THEN J
    ELSE IF map_summaries_done = Null /\ reduce_done = NoText
         THEN J
         ELSE [J EXCEPT ![job_id] =
                 [@ EXCEPT !.map_summaries_done = IF map_summaries_done # Null THEN map_summaries_done ELSE @,
                           !.reduce_done = IF reduce_done # NoText THEN reduce_done ELSE @]]

\* the WHERE clause of get_or_create_job
ActiveRecent(J, doc, t) ==
    {j \in DOMAIN J : /\ J[j].doc = doc
                      /\ J[j].status \in {"pending", "processing"}
                      /\ J[j].started_at > t - RecencyWindow}

\* a get_or_create_job whose WHERE clause asks for status = 'pending' alone
get_or_create_job_pending_only(J, doc, t) ==
    LET rows == {j \in ActiveRecent(J, doc, t) : J[j].status = "pending"}
    IN  IF rows = {} THEN {0}
        ELSE {j \in rows : \A k \in rows : J[k].started_at <= J[j].started_at}

\* a get_or_create_job with ORDER BY started_at ASC
get_or_create_job_oldest_first(J, doc, t) ==
    LET rows == ActiveRecent(J, doc, t)
    IN  IF rows = {} THEN {0}
        ELSE {j \in rows : \A k \in rows : J[k].started_at >= J[j].started_at}

\* ORDER BY started_at DESC LIMIT 1: the rows the query may return (rows with
\* equal started_at come in no particular order); {0} stands for None.
get_or_create_job(J, doc, t) ==
    LET rows == ActiveRecent(J, doc, t)
    IN  IF rows = {} THEN {0}
        ELSE {j \in rows : \A k \in rows : J[k].started_at <= J[j].started_at}

\* get_embed_status: `status[...] or 0`
OrZero(x) == IF x = Null THEN 0 ELSE x

Terminal(st) == st \in {"completed", "failed"}

(***************************************************************************)
(* The stores of one document: bill_chunks, bill_chunk_summaries,          *)
(* bill_summaries.                                                         *)
(***************************************************************************)
RECURSIVE SortedSeq(_)
\* the integers of S in ascending order (ORDER BY)
SortedSeq(S) ==
    IF S = {} THEN <<>>
    ELSE LET m == CHOOSE x \in S : \A y \in S : x <= y
         IN  <<m>> \o SortedSeq(S \ {m})

SetMin(S) == CHOOSE x \in S : \A y \in S : x <= y
SetMax(S) == CHOOSE x \in S : \A y \in S : x >= y

\* process_pdf_streaming: the chunk stream of a PDF that yields n chunks.
\* Chunk i spans PagesPerChunk pages; its text is identified by <<n, i>>.
ChunkOf(n, i) ==
    [chunk_index |-> i, text |-> <<n, i>>,
     page_start |-> i * PagesPerChunk + 1,
     page_end |-> (i + 1) * PagesPerChunk,
     bucket_id |-> (i * PagesPerChunk) \div bucket_size]

StreamRows(n) == {ChunkOf(n, i) : i \in 0..(n - 1)}

\* a get_total_pages that reports a one-page document
TotalPages_one_page(n) == 1

\* get_total_pages of that PDF (a PDF without text still has a page)
TotalPages(n) == IF n = 0 THEN 1 ELSE n * PagesPerChunk

\* INSERT ... ON CONFLICT (congress, bill_type, bill_number, chunk_index)
\* DO UPDATE, for a batch of rows
UpsertChunks(store, rows) ==
    {c \in store : \A x \in rows : x.chunk_index # c.chunk_index} \cup rows

\* generate_bucket_summaries: SELECT ... GROUP BY bucket_id ORDER BY bucket_id
FetchBuckets(store) ==
    LET ids == SortedSeq({c.bucket_id : c \in store})
        Members(b) == {c \in store : c.bucket_id = b}
        Row(b) ==
            LET idx == SortedSeq({c.chunk_index : c \in Members(b)})
                TextAt(i) == (CHOOSE c \in Members(b) : c.chunk_index = i).text
            IN  [bucket_id |-> b,
                 page_start |-> SetMin({c.page_start : c \in Members(b)}),
                 page_end |-> SetMax({c.page_end : c \in Members(b)}),
                 texts |-> [k \in 1..Len(idx) |-> TextAt(idx[k])]]
    IN  [k \in 1..Len(ids) |-> Row(ids[k])]

\* the generation capability is a function of its prompt: the bucket summary
\* is identified by the page range and the chunk texts it was asked about
BucketSummaryText(bucket) == <<bucket.page_start, bucket.page_end, bucket.texts>>

\* response.text of a generation call that returned an empty text
EmptyText == <<>>

\* response.text: what generate_content was asked for, or the empty text
ResponseText(response, text) == IF response = "empty" THEN EmptyText ELSE text

\* INSERT INTO bill_chunk_summaries ... ON CONFLICT (..., bucket_id) DO UPDATE
UpsertBucketSummary(store, bucket, summary_text) ==
    {s \in store : s.bucket_id # bucket.bucket_id} \cup
    {[bucket_id |-> bucket.bucket_id, page_start |-> bucket.page_start,
      page_end |-> bucket.page_end, summary_text |-> summary_text]}

\* generate_final_summary: SELECT ... FROM bill_chunk_summaries ORDER BY bucket_id
FetchBucketSummaries(store) ==
    LET ids == SortedSeq({s.bucket_id : s \in store})
    IN  [k \in 1..Len(ids) |-> CHOOSE s \in store : s.bucket_id = ids[k]]

\* the final summary is identified by the context it was generated from
FinalSummaryText(bucket_summaries) ==
    [k \in 1..Len(bucket_summaries) |->
        <<bucket_summaries[k].page_start, bucket_summaries[k].page_end,
          bucket_summaries[k].summary_text>>]

\* no row in bill_summaries
NoSummary == <<>>

\* the bill_summaries row of the document: summary_data["tldr"]
FinalRow(final_summary_text) == <<final_summary_text>>

(***************************************************************************)
(* State.                                                                  *)
(***************************************************************************)
VARIABLES
    now,               \* the database clock now(), in minutes
    jobs,              \* bill_embedding_jobs
    chunks,            \* bill_chunks rows of the document
    bucket_summaries,  \* bill_chunk_summaries rows of the document
    final_summary,     \* bill_summaries row of the document, or NoSummary
    run,               \* per request: the route handler and its background task
    ops,               \* SpecTracker: operations issued so far
    reply,             \* SpecTracker: the last call of get_or_create_job: its document,
                       \* what it returned (0 for None) and which operation it was;
                       \* SpecStatus: the response of get_embed_status
    asm                \* SpecChunker: the generator chunk_page_stream

vars == <<now, jobs, chunks, bucket_summaries, final_summary, run, ops, reply, asm>>

\* The locals of one embed request and of the pipeline task it launches.
\*   pc               position of the handler / task
\*   job_id, force    run_embedding_job arguments
\*   n                length of the chunk stream of the downloaded PDF
\*   cursor           chunks taken from the generator so far
\*   total_chunks, pages_processed     embed_bill locals
\*   buckets_data, map_i               generate_bucket_summaries locals
\*   reduce_text      generate_final_summary: the generated summary
\*   failed           bucket ids whose generation call raised in the map phase
\*                    of the run, until its reduce phase has read its input
\*   summarized       bucket ids whose BucketSummary the map phase of the run
\*                    has persisted, until its reduce phase has read its input
\*   exc_stage, exc_msg                the exception being handled
\* and what the task has done so far:
\*   skipped          embed_bill returned at "Already embedded"
\*   embed_calls      calls of the embedding capability
\*   written          chunk_index values this run has upserted
\*   stored_final     generate_final_summary has upserted the FinalSummary
\*   complete_failed  complete_job(success=False) calls that raised
\*   overtaken        another request's create_job ran between the
\*                    get_or_create_job and the create_job of this request
IdleRun ==
    [pc |-> "idle", job_id |-> 0, force |-> FALSE, n |-> Null, cursor |-> 0,
     total_chunks |-> 0, pages_processed |-> 0, buckets_data |-> <<>>,
     map_i |-> 0, reduce_text |-> NoSummary, failed |-> {}, summarized |-> {},
     exc_stage |-> "none",
     exc_msg |-> NoText, skipped |-> FALSE, embed_calls |-> 0,
     written |-> {}, stored_final |-> FALSE, complete_failed |-> 0,
     overtaken |-> FALSE]

\* chunk_page_stream has not been called
NoAsm == [pc |-> "off"]

\* get_or_create_job has not been called
NoReply == [doc |-> NoText, job_id |-> 0, op |-> 0]

Init ==
    /\ now = 0
    /\ jobs = <<>>
    /\ chunks = {}
    /\ bucket_summaries = {}
    /\ final_summary = NoSummary
    /\ run = [r \in Reqs |-> IdleRun]
    /\ ops = 0
    /\ reply = NoReply
    /\ asm = NoAsm

Stores == <<chunks, bucket_summaries, final_summary>>
TrackerVars == <<ops, reply>>

\* the frames of embed_bill, generate_bucket_summaries and
\* generate_final_summary are gone: their locals no longer exist
EmbedLocalsGone(rec) == [rec EXCEPT !.cursor = 0, !.total_chunks = 0, !.pages_processed = 0]
MapLocalsGone(rec) == [rec EXCEPT !.buckets_data = <<>>, !.map_i = 0]
ReduceLocalsGone(rec) ==
    [rec EXCEPT !.reduce_text = NoSummary, !.failed = {}, !.summarized = {}]

\* raise: the exception unwinds to the handler of run_embedding_job;
\* rec holds the locals at the raise
Raise(r, rec, stage, msg) ==
    run' = [run EXCEPT ![r] =
              [ReduceLocalsGone(MapLocalsGone(EmbedLocalsGone(rec)))
                 EXCEPT !.pc = "except", !.exc_stage = stage, !.exc_msg = msg]]

\* f"Job failed: {str(e)}"
JobFailed(msg) ==
    CASE msg = "db error" -> "Job failed: db error"
      [] msg = "download error" -> "Job failed: download error"
      [] msg = "embedding error" -> "Job failed: embedding error"
      [] msg = "generation error" -> "Job failed: generation error"
      [] OTHER -> "Job failed: No bucket summaries found - cannot generate final summary"

(***************************************************************************)
(* routes/bills.py embed_bill: get_or_create_job, create_job, create_task  *)
(***************************************************************************)
\* requests are numbered in the order in which they arrive
MayArrive(r) == \A q \in Reqs : q < r => run[q].pc # "idle"

RouteCheck(r) ==
    /\ run[r].pc = "idle"
    /\ MayArrive(r)
    /\ \/ \E existing_job_id \in get_or_create_job(jobs, TheDoc, now), f \in BOOLEAN :
            run' = [run EXCEPT ![r].pc = IF existing_job_id # 0 THEN "already_running"
                                         ELSE "checked",
                               ![r].force = IF existing_job_id # 0 THEN FALSE ELSE f]
       \/ run' = [run EXCEPT ![r].pc = "http_500"]
    /\ UNCHANGED <<now, jobs, Stores, TrackerVars, asm>>

RouteCreate(r) ==
    /\ run[r].pc = "checked"
    /\ \/ /\ jobs' = create_job(jobs, TheDoc, Null, now)
          /\ run' = [q \in Reqs |->
                      IF q = r
                      THEN [run[q] EXCEPT !.pc = "run_start", !.job_id = Len(jobs) + 1]
                      ELSE IF run[q].pc = "checked"
                           THEN [run[q] EXCEPT !.overtaken = TRUE]
                           ELSE run[q]]
       \/ /\ run' = [run EXCEPT ![r].pc = "http_500"]
          /\ UNCHANGED jobs
    /\ UNCHANGED <<now, Stores, TrackerVars, asm>>

(***************************************************************************)
(* background_jobs.py run_embedding_job                                    *)
(***************************************************************************)
\* await job_manager.update_status(job_id, 'processing')
RunStart(r) ==
    /\ run[r].pc = "run_start"
    /\ \/ /\ jobs' = update_status(jobs, run[r].job_id, "processing", NoText, now)
          /\ run' = [run EXCEPT ![r].pc = "embed_begin"]
       \/ /\ Raise(r, run[r], "start", "db error")
          /\ UNCHANGED jobs
    /\ UNCHANGED <<now, Stores, TrackerVars, asm>>

(***************************************************************************)
(* bill_rag_embedder.py BillRAGEmbedder.embed_bill                         *)
(***************************************************************************)
\* an embed_bill without the "Already embedded" return
AlreadyEmbedded_never(existing) == FALSE

\* an "Already embedded" test that needs more than one chunk
AlreadyEmbedded_more_than_one(existing) == existing > 1

\* `if existing > 0:` return, "Already embedded"
AlreadyEmbedded(existing) == existing > 0

\* a force branch that deletes nothing
DeleteChunks_nothing(store) == store

\* DELETE FROM bill_chunks WHERE congress = $1 AND bill_type = $2 AND bill_number = $3
DeleteChunks(store) == {}

\* an embed_bill without "Process final batch": a partial batch is dropped
StreamExhausted_partial_batch_dropped(cursor, n) == n - cursor < batch_size

\* the generator of process_pdf_streaming has no chunk left
StreamExhausted(cursor, n) == cursor >= n

\* embed_bill returns to run_embedding_job, which calls generate_bucket_summaries
EmbedReturn(rec) == [EmbedLocalsGone(rec) EXCEPT !.pc = "map_fetch"]

\* where embed_bill goes on after an await of its batch loop
AfterBatch(rec) ==
    IF StreamExhausted(rec.cursor, rec.n) THEN EmbedReturn(rec)
    ELSE [rec EXCEPT !.pc = "embed_batch"]

\* the first await of embed_bill: the COUNT(*) of the not-force branch, or
\* the DELETE of the force branch
EmbedBegin(r) ==
    /\ run[r].pc = "embed_begin"
    /\ IF ~run[r].force
       THEN /\ \/ IF AlreadyEmbedded(Cardinality(chunks))
                  THEN run' = [run EXCEPT ![r] = EmbedReturn([@ EXCEPT !.skipped = TRUE])]
                  ELSE run' = [run EXCEPT ![r].pc = "embed_open"]
               \/ Raise(r, run[r], "embed", "db error")
            /\ UNCHANGED chunks
       ELSE \/ /\ chunks' = DeleteChunks(chunks)
               /\ run' = [run EXCEPT ![r].pc = "embed_open"]
            \/ /\ Raise(r, run[r], "embed", "db error")
               /\ UNCHANGED chunks
    /\ UNCHANGED <<now, jobs, bucket_summaries, final_summary, TrackerVars, asm>>

\* requests.get, get_total_pages, await _update_job_progress(total_pages=...);
\* the PDF behind pdf_url yields a stream of one of the given lengths
EmbedOpen(r, lengths) ==
    /\ run[r].pc = "embed_open"
    /\ \/ /\ Raise(r, run[r], "embed", "download error")
          /\ UNCHANGED jobs
       \/ \E n \in lengths :
            \/ /\ jobs' = Embedder_update_job_progress(jobs, run[r].job_id,
                                                       TotalPages(n), Null, Null)
               /\ run' = [run EXCEPT ![r] = AfterBatch([@ EXCEPT !.n = n])]
            \/ /\ Raise(r, [run[r] EXCEPT !.n = n], "embed", "db error")
               /\ UNCHANGED jobs
    /\ UNCHANGED <<now, Stores, TrackerVars, asm>>

\* the chunks the loop appends to chunks_buffer before the next
\* _embed_and_store_batch: a full batch, or what is left of the stream
BatchIndices(cursor, n) == cursor..(Min(cursor + batch_size, n) - 1)

\* an _embed_and_store_batch that stores the batch before the exception of
\* embed_texts_batch leaves it
EmbeddingFailed_batch_stored(r, taken, idx) ==
    /\ Raise(r, [taken EXCEPT !.written = @ \cup idx], "embed", "embedding error")
    /\ chunks' = UpsertChunks(chunks, {ChunkOf(taken.n, i) : i \in idx})

\* embed_texts_batch raises: nothing of the batch is stored, the exception
\* leaves embed_bill
EmbeddingFailed(r, taken, idx) ==
    /\ Raise(r, taken, "embed", "embedding error")
    /\ UNCHANGED chunks

\* _embed_and_store_batch: embed_texts_batch, then the executemany upsert
EmbedBatch(r) ==
    /\ run[r].pc = "embed_batch"
    /\ LET idx == BatchIndices(run[r].cursor, run[r].n)
           rows == {ChunkOf(run[r].n, i) : i \in idx}
           taken == [run[r] EXCEPT
                       !.cursor = @ + Cardinality(idx),
                       !.pages_processed = SetMax({@} \cup {c.page_end : c \in rows}),
                       !.embed_calls = @ + 1]
       IN  \/ EmbeddingFailed(r, taken, idx)
           \/ /\ Raise(r, taken, "embed", "db error")
              /\ UNCHANGED chunks
           \/ /\ chunks' = UpsertChunks(chunks, rows)
              /\ run' = [run EXCEPT ![r] =
                           [taken EXCEPT !.total_chunks = @ + Cardinality(idx),
                                         !.written = @ \cup idx,
                                         !.pc = "embed_progress"]]
    /\ UNCHANGED <<now, jobs, bucket_summaries, final_summary, TrackerVars, asm>>

\* the batch stored last was flushed inside the loop (len(chunks_buffer) >=
\* batch_size), not by "Process final batch"
FlushedInLoop(total_chunks) == total_chunks % batch_size = 0

\* await self._update_job_progress(job_id, pages_processed=..., chunks_embedded=...)
EmbedProgress(r) ==
    /\ run[r].pc = "embed_progress"
    /\ \/ /\ jobs' = Embedder_update_job_progress(jobs, run[r].job_id, Null,
                            IF FlushedInLoop(run[r].total_chunks)
                            THEN run[r].pages_processed
                            ELSE TotalPages(run[r].n),
                            run[r].total_chunks)
          /\ run' = [run EXCEPT ![r] = AfterBatch(@)]
       \/ /\ Raise(r, run[r], "embed", "db error")
          /\ UNCHANGED jobs
    /\ UNCHANGED <<now, Stores, TrackerVars, asm>>

(***************************************************************************)
(* hierarchical_summarizer.py generate_bucket_summaries (map)              *)
(***************************************************************************)
\* a map loop that stops after its first bucket
MapFinished_after_first_bucket(i, buckets_data) == i >= 1

\* the for loop over buckets_data has iterated over every bucket
MapFinished(i, buckets_data) == i >= Len(buckets_data)

\* generate_bucket_summaries returns to run_embedding_job, which calls
\* generate_final_summary
MapReturn(rec) == [MapLocalsGone(rec) EXCEPT !.pc = "reduce_fetch"]

\* `continue`, or the end of the loop body
AfterBucket(rec) ==
    IF MapFinished(rec.map_i + 1, rec.buckets_data) THEN MapReturn(rec)
    ELSE [rec EXCEPT !.map_i = @ + 1, !.pc = "map_bucket"]

MapFetch(r) ==
    /\ run[r].pc = "map_fetch"
    /\ \/ LET buckets_data == FetchBuckets(chunks)
          IN  run' = [run EXCEPT ![r] =
                        IF buckets_data = <<>> THEN MapReturn(@)
                        ELSE [@ EXCEPT !.buckets_data = buckets_data, !.map_i = 0,
                                       !.pc = "map_bucket"]]
       \/ Raise(r, run[r], "map", "db error")
    /\ UNCHANGED <<now, jobs, Stores, TrackerVars, asm>>

\* generate_content for bucket i, then the upsert of its summary; an
\* exception of either is caught by the loop body: `continue`
MapBucket(r, responses) ==
    /\ run[r].pc = "map_bucket"
    /\ LET bucket == run[r].buckets_data[run[r].map_i + 1]
       IN  \/ /\ run' = [run EXCEPT ![r] =
                           AfterBucket([@ EXCEPT !.failed = @ \cup {bucket.bucket_id}])]
              /\ UNCHANGED bucket_summaries
           \/ /\ run' = [run EXCEPT ![r] = AfterBucket(@)]
              /\ UNCHANGED bucket_summaries
           \/ \E response \in responses :
                /\ bucket_summaries' =
                      UpsertBucketSummary(bucket_summaries, bucket,
                                          ResponseText(response, BucketSummaryText(bucket)))
                /\ run' = [run EXCEPT ![r].pc = "map_progress",
                                       ![r].summarized = @ \cup {bucket.bucket_id}]
    /\ UNCHANGED <<now, jobs, chunks, final_summary, TrackerVars, asm>>

\* await self._update_job_progress(job_id, map_summaries_done=i+1); an
\* exception is caught by the loop body
MapProgress(r) ==
    /\ run[r].pc = "map_progress"
    /\ \/ jobs' = Summarizer_update_job_progress(jobs, run[r].job_id,
                                                  run[r].map_i + 1, NoText)
       \/ UNCHANGED jobs
    /\ run' = [run EXCEPT ![r] = AfterBucket(run[r])]
    /\ UNCHANGED <<now, Stores, TrackerVars, asm>>

(***************************************************************************)
(* hierarchical_summarizer.py generate_final_summary (reduce)              *)
(***************************************************************************)
\* a generate_final_summary without `if not bucket_summaries: raise`
NoBucketSummaries_not_tested(rows) == FALSE

\* `if not bucket_summaries:`
NoBucketSummaries(rows) == rows = <<>>

ReduceFetch(r, responses) ==
    /\ run[r].pc = "reduce_fetch"
    /\ LET rows == FetchBucketSummaries(bucket_summaries)
       IN  \/ Raise(r, run[r], "reduce", "db error")
           \/ /\ NoBucketSummaries(rows)
              /\ Raise(r, run[r], "reduce", "No bucket summaries found")
           \/ /\ ~NoBucketSummaries(rows)
              /\ Raise(r, run[r], "reduce", "generation error")
           \/ /\ ~NoBucketSummaries(rows)
              /\ \E response \in responses :
                    run' = [run EXCEPT ![r].reduce_text =
                                          ResponseText(response, FinalSummaryText(rows)),
                                       ![r].failed = {},
                                       ![r].summarized = {},
                                       ![r].pc = "reduce_store"]
    /\ UNCHANGED <<now, jobs, Stores, TrackerVars, asm>>

\* INSERT INTO bill_summaries ... ON CONFLICT ... DO UPDATE
ReduceStore(r) ==
    /\ run[r].pc = "reduce_store"
    /\ \/ /\ final_summary' = FinalRow(run[r].reduce_text)
          /\ run' = [run EXCEPT ![r] = [ReduceLocalsGone(@) EXCEPT !.pc = "reduce_progress",
                                                                   !.stored_final = TRUE]]
       \/ /\ Raise(r, run[r], "reduce", "db error")
          /\ UNCHANGED final_summary
    /\ UNCHANGED <<now, jobs, chunks, bucket_summaries, TrackerVars, asm>>

\* await self._update_job_progress(job_id, reduce_done=True)
ReduceProgress(r) ==
    /\ run[r].pc = "reduce_progress"
    /\ \/ /\ jobs' = Summarizer_update_job_progress(jobs, run[r].job_id, Null, "true")
          /\ run' = [run EXCEPT ![r].pc = "complete"]
       \/ /\ Raise(r, run[r], "reduce", "db error")
          /\ UNCHANGED jobs
    /\ UNCHANGED <<now, Stores, TrackerVars, asm>>

(***************************************************************************)
(* run_embedding_job: completion and the exception handlers                *)
(***************************************************************************)
\* await job_manager.complete_job(job_id, success=True)
Complete(r) ==
    /\ run[r].pc = "complete"
    /\ \/ /\ jobs' = complete_job(jobs, run[r].job_id, TRUE, NoText, now)
          /\ run' = [run EXCEPT ![r].pc = "done"]
       \/ /\ Raise(r, run[r], "complete", "db error")
          /\ UNCHANGED jobs
    /\ UNCHANGED <<now, Stores, TrackerVars, asm>>

\* except Exception as e: complete_job(job_id, success=False, error=error_msg)
\* inside its own try (a failure is printed); then `raise`
Except(r) ==
    /\ run[r].pc = "except"
    /\ \/ /\ jobs' = complete_job(jobs, run[r].job_id, FALSE, JobFailed(run[r].exc_msg), now)
          /\ run' = [run EXCEPT ![r].pc = "outer_except"]
       \/ /\ run' = [run EXCEPT ![r].pc = "outer_except", ![r].complete_failed = @ + 1]
          /\ UNCHANGED jobs
    /\ UNCHANGED <<now, Stores, TrackerVars, asm>>

\* run_with_error_handling: complete_job(job_id, success=False, error=str(e));
\* an exception of this call ends the task
OuterExcept(r) ==
    /\ run[r].pc = "outer_except"
    /\ \/ /\ jobs' = complete_job(jobs, run[r].job_id, FALSE, run[r].exc_msg, now)
          /\ run' = [run EXCEPT ![r].pc = "done"]
       \/ /\ run' = [run EXCEPT ![r].pc = "task_died", ![r].complete_failed = @ + 1]
          /\ UNCHANGED jobs
    /\ UNCHANGED <<now, Stores, TrackerVars, asm>>

\* time passes
Tick ==
    /\ now + TickMinutes <= MaxTime
    /\ now' = now + TickMinutes
    /\ UNCHANGED <<jobs, Stores, run, TrackerVars, asm>>

\* the steps of the background task of request r
Pipeline(r, lengths, responses) ==
    \/ RunStart(r)
    \/ EmbedBegin(r)
    \/ EmbedOpen(r, lengths)
    \/ EmbedBatch(r)
    \/ EmbedProgress(r)
    \/ MapFetch(r)
    \/ MapBucket(r, responses)
    \/ MapProgress(r)
    \/ ReduceFetch(r, responses)
    \/ ReduceStore(r)
    \/ ReduceProgress(r)
    \/ Complete(r)
    \/ Except(r)
    \/ OuterExcept(r)

\* no background task is between its creation and its end, and no route
\* handler is between its check and its create
Quiescent == \A r \in Reqs : run[r].pc \in {"idle", "already_running", "http_500", "done", "task_died"}

(***************************************************************************)
(* Spec: concurrent embed requests for one document and one PDF; their     *)
(* route handlers and background tasks interleave at every await.          *)
(***************************************************************************)
Next ==
    \E r \in Reqs :
        \/ RouteCheck(r)
        \/ RouteCreate(r)
        \/ Pipeline(r, {MaxChunks}, {"text"})

Spec == Init /\ [][Next]_vars

(***************************************************************************)
(* SpecSeq: a client that sends the next embed request when the previous   *)
(* one has ended; the PDF may differ from request to request (re-chunking) *)
(* and time passes.                                                        *)
(***************************************************************************)
NextSeq ==
    \/ Tick
    \/ \E r \in Reqs :
        \/ Quiescent /\ RouteCheck(r)
        \/ RouteCreate(r)
        \/ Pipeline(r, 0..MaxChunks, {"text"})

SpecSeq == Init /\ [][NextSeq]_vars

(***************************************************************************)
(* SpecEmpty: as SpecSeq at one instant, for one PDF, with a generation    *)
(* capability that may return an empty text.                               *)
(***************************************************************************)
NextEmpty ==
    \E r \in Reqs :
        \/ Quiescent /\ RouteCheck(r)
        \/ RouteCreate(r)
        \/ Pipeline(r, {MaxChunks}, {"text", "empty"})

SpecEmpty == Init /\ [][NextEmpty]_vars

(***************************************************************************)
(* SpecLive: requests arrive one after the other for a PDF of MaxChunks    *)
(* chunks.  asyncio runs every task it was given (asyncio.create_task in   *)
(* the route) and every awaited call returns or raises, so a background    *)
(* task that can take a step eventually takes one.                         *)
(***************************************************************************)
NextLive ==
    \E r \in Reqs :
        \/ Quiescent /\ RouteCheck(r)
        \/ RouteCreate(r)
        \/ Pipeline(r, {MaxChunks}, {"text"})

TaskFairness == \A r \in Reqs : WF_vars(Pipeline(r, {MaxChunks}, {"text"}))

SpecLive == Init /\ [][NextLive]_vars /\ TaskFairness

(***************************************************************************)
(* SpecRace: concurrent embed requests while time passes.                  *)
(***************************************************************************)
NextRace ==
    \/ Tick
    \/ \E r \in Reqs :
        \/ RouteCheck(r)
        \/ RouteCreate(r)
        \/ Pipeline(r, {1}, {"text"})

SpecRace == Init /\ [][NextRace]_vars

(***************************************************************************)
(* SpecTracker: callers of the job tracker issue its operations in any     *)
(* order (EmbeddingJobManager and the two _update_job_progress methods     *)
(* are public to the pipeline code and to tests), MaxOps operations in all.*)
(***************************************************************************)
Issue == ops < MaxOps /\ ops' = ops + 1

TrackerCreate ==
    /\ Issue
    /\ Len(jobs) < MaxReq
    /\ \E doc \in Docs, total_pages \in {Null, 100} :
          jobs' = create_job(jobs, doc, total_pages, now)
    /\ UNCHANGED <<now, Stores, run, reply, asm>>

TrackerUpdateStatus ==
    /\ Issue
    /\ \E job_id \in DOMAIN jobs, status \in {"processing", "completed", "failed"},
          error_message \in {NoText, "x"} :
          jobs' = update_status(jobs, job_id, status, error_message, now)
    /\ UNCHANGED <<now, Stores, run, reply, asm>>

TrackerComplete ==
    /\ Issue
    /\ \E job_id \in DOMAIN jobs, success \in BOOLEAN, error \in {NoText, "x"} :
          jobs' = complete_job(jobs, job_id, success, error, now)
    /\ UNCHANGED <<now, Stores, run, reply, asm>>

TrackerEmbedderProgress ==
    /\ Issue
    /\ \E job_id \in DOMAIN jobs, total_pages \in {Null, 100},
          pages_processed \in {Null, 10}, chunks_embedded \in {Null, 1} :
          jobs' = Embedder_update_job_progress(jobs, job_id, total_pages,
                                               pages_processed, chunks_embedded)
    /\ UNCHANGED <<now, Stores, run, reply, asm>>

TrackerSummarizerProgress ==
    /\ Issue
    /\ \E job_id \in DOMAIN jobs, map_summaries_done \in {Null, 1},
          reduce_done \in {NoText, "true"} :
          jobs' = Summarizer_update_job_progress(jobs, job_id, map_summaries_done,
                                                 reduce_done)
    /\ UNCHANGED <<now, Stores, run, reply, asm>>

\* existing_job_id = await get_or_create_job(congress, bill_type, bill_number, pool)
TrackerGetOrReuse ==
    /\ Issue
    /\ \E doc \in Docs :
          \E existing_job_id \in get_or_create_job(jobs, doc, now) :
              reply' = [doc |-> doc, job_id |-> existing_job_id, op |-> ops + 1]
    /\ UNCHANGED <<now, jobs, Stores, run, asm>>

TrackerTick ==
    /\ ops < MaxOps
    /\ \E minutes \in {TrackerTickMinutes, TickMinutes} :
          /\ now + minutes <= MaxTime
          /\ now' = now + minutes
    /\ UNCHANGED <<jobs, Stores, run, TrackerVars, asm>>

NextTracker ==
    \/ TrackerTick
    \/ TrackerCreate
    \/ TrackerUpdateStatus
    \/ TrackerComplete
    \/ TrackerEmbedderProgress
    \/ TrackerSummarizerProgress
    \/ TrackerGetOrReuse

SpecTracker == Init /\ [][NextTracker]_vars

(***************************************************************************)
(* SpecLifecycle: one caller drives one job through create_job, a progress *)
(* update of the embedder, complete_job(success=True) and                  *)
(* complete_job(success=False, error="x"), while time passes; ops counts   *)
(* the calls made.                                                         *)
(***************************************************************************)
LifecycleCreate ==
    /\ ops = 0
    /\ \E doc \in Docs, total_pages \in {Null, 100} :
          jobs' = create_job(jobs, doc, total_pages, now)
    /\ ops' = 1
    /\ UNCHANGED <<now, Stores, run, reply, asm>>

LifecycleProgress ==
    /\ ops = 1
    /\ jobs' = Embedder_update_job_progress(jobs, Len(jobs), Null, 10, Null)
    /\ ops' = 2
    /\ UNCHANGED <<now, Stores, run, reply, asm>>

LifecycleComplete ==
    /\ ops = 2
    /\ jobs' = complete_job(jobs, Len(jobs), TRUE, NoText, now)
    /\ ops' = 3
    /\ UNCHANGED <<now, Stores, run, reply, asm>>

LifecycleCompleteAgain ==
    /\ ops = 3
    /\ jobs' = complete_job(jobs, Len(jobs), FALSE, "x", now)
    /\ ops' = 4
    /\ UNCHANGED <<now, Stores, run, reply, asm>>

NextLifecycle ==
    \/ TrackerTick
    \/ LifecycleCreate
    \/ LifecycleProgress
    \/ LifecycleComplete
    \/ LifecycleCompleteAgain

SpecLifecycle == Init /\ [][NextLifecycle]_vars

(***************************************************************************)
(* streaming_pdf_processor.py: texts are sequences of characters, indexed  *)
(* from 0 as in the code.                                                  *)
(***************************************************************************)
Chars == {"a", ".", " "}

Abs(x) == IF x < 0 THEN -x ELSE x

\* text[a:b]
Slice(text, a, b) == SubSeq(text, a + 1, Min(b, Len(text)))

\* text.strip()
Strip(text) ==
    LET kept == {i \in 1..Len(text) : text[i] # " "}
    IN  IF kept = {} THEN <<>> ELSE SubSeq(text, SetMin(kept), SetMax(kept))

\* iter_pdf_pages: re.sub(r'\s+', ' ', text).strip() leaves single spaces
\* between words and none at the ends
IsClean(text) ==
    /\ text # <<>> => text[1] # " " /\ text[Len(text)] # " "
    /\ \A i \in 1..(Len(text) - 1) : ~(text[i] = " " /\ text[i + 1] = " ")

CleanTexts ==
    {text \in UNION {[1..n -> Chars] : n \in 0..MaxPageLen} : IsClean(text)}

\* [m.end() for m in re.finditer(r'[.!?]\s+', search_region)]: a match is a
\* full stop followed by a run of spaces, and ends after the run
SentenceEnds(search_region) ==
    LET n == Len(search_region)
        starts == {i \in 0..(n - 2) : search_region[i + 1] = "." /\ search_region[i + 2] = " "}
        EndOfRun(i) == SetMin({e \in (i + 2)..n : e = n \/ search_region[e + 1] # " "})
    IN  {EndOfRun(i) : i \in starts}

find_break_point(text, target) ==
    IF Len(text) <= target THEN Len(text)
    ELSE LET search_start == Max(0, target - SearchRadius)
             search_end == Min(Len(text), target + SearchRadius)
             sentence_ends == SentenceEnds(Slice(text, search_start, search_end))
             Distance(x) == Abs((search_start + x) - target)
             spaces == {pos \in target..(Len(text) - 1) : text[pos + 1] = " "}
         IN  IF sentence_ends # {}
             THEN search_start + SetMin({x \in sentence_ends :
                                           \A y \in sentence_ends : Distance(x) <= Distance(y)})
             ELSE IF spaces # {} THEN SetMin(spaces)
             ELSE target

\* a bucket_id computed from the page number itself
BucketOf_page_number(page_start, size) == page_start \div size

\* bucket_id = (buffer_page_start - 1) // self.bucket_size
BucketOf(page_start, size) == (page_start - 1) \div size

\* a chunk_index that counts the candidates, skipped ones too
NextChunkIndex_every_candidate(chunk_index, yielded) == chunk_index + 1

\* chunk_index += 1, inside `if chunk_text:`
NextChunkIndex(chunk_index, yielded) == IF yielded THEN chunk_index + 1 ELSE chunk_index

\* a flush that keeps nothing of the emitted region
OverlapStart_nothing_kept(break_point, overlap_chars) == break_point

\* overlap_start = max(0, break_point - self.overlap_chars)
OverlapStart(break_point, overlap_chars) == Max(0, break_point - overlap_chars)

\* characters of the longest buffer a stream of the model adds up to; the
\* assembler is not resumed once char_position has passed it
MaxSourceLen == MaxPages * (MaxPageLen + 1)

\* the locals of chunk_page_stream at its start; out is the sequence of
\* chunks yielded so far, skipped_blank tells that a candidate chunk without
\* text was passed over.  History of the stream, kept beside the locals:
\* source is the text of all pages appended so far (what buffer would be had
\* nothing been cut off), page_of the page number each of its characters came
\* with, offset the place in source where buffer begins, and regions the span
\* of source each yielded chunk was cut from.
StartAsm(chunk_chars, overlap_chars, size) ==
    [pc |-> "for", chunk_chars |-> chunk_chars, overlap_chars |-> overlap_chars,
     bucket_size |-> size, page_num |-> 0, buffer |-> <<>>,
     buffer_page_start |-> Null, buffer_page_end |-> Null, char_position |-> 0,
     chunk_index |-> 0, out |-> <<>>, skipped_blank |-> FALSE,
     source |-> <<>>, page_of |-> <<>>, offset |-> 0, regions |-> <<>>]

\* the dictionary chunk_page_stream yields
Yielded(a, chunk_text, char_end) ==
    [text |-> chunk_text, page_start |-> a.buffer_page_start,
     page_end |-> a.buffer_page_end,
     bucket_id |-> BucketOf(a.buffer_page_start, a.bucket_size),
     char_start |-> a.char_position, char_end |-> char_end,
     chunk_index |-> a.chunk_index]

\* for page_num, page_text in page_stream: the next page is appended
ChunkerReadPage ==
    /\ asm.pc = "for"
    /\ asm.page_num < MaxPages
    /\ \E page_text \in CleanTexts :
          asm' = [asm EXCEPT
                    !.page_num = @ + 1,
                    !.buffer_page_start = IF asm.buffer = <<>> THEN asm.page_num + 1 ELSE @,
                    !.buffer = @ \o <<" ">> \o page_text,
                    !.buffer_page_end = asm.page_num + 1,
                    !.source = @ \o <<" ">> \o page_text,
                    !.page_of = @ \o [i \in 1..(Len(page_text) + 1) |-> asm.page_num + 1],
                    !.pc = "while"]
    /\ UNCHANGED <<now, jobs, Stores, run, TrackerVars>>

\* one pass of `while len(buffer) >= self.chunk_chars`
ChunkerFlush ==
    /\ asm.pc = "while"
    /\ Len(asm.buffer) >= asm.chunk_chars
    /\ Len(asm.out) < MaxEmitted
    /\ asm.char_position <= MaxSourceLen
    /\ LET break_point == find_break_point(asm.buffer, asm.chunk_chars)
           chunk_text == Strip(Slice(asm.buffer, 0, break_point))
           yielded == chunk_text # <<>>
           overlap_start == OverlapStart(break_point, asm.overlap_chars)
           buffer == Slice(asm.buffer, overlap_start, Len(asm.buffer))
       IN  asm' = [asm EXCEPT
                     !.out = IF yielded
                             THEN Append(@, Yielded(asm, chunk_text,
                                                    asm.char_position + Len(chunk_text)))
                             ELSE @,
                     !.chunk_index = NextChunkIndex(@, yielded),
                     !.skipped_blank = @ \/ ~yielded,
                     !.regions = IF yielded
                                 THEN Append(@, [from |-> asm.offset,
                                                 to |-> asm.offset + break_point])
                                 ELSE @,
                     !.offset = @ + overlap_start,
                     !.buffer = buffer,
                     !.char_position = @ + (break_point - overlap_start),
                     !.buffer_page_start = IF Len(buffer) < asm.overlap_chars
                                           THEN asm.buffer_page_end ELSE @]
    /\ UNCHANGED <<now, jobs, Stores, run, TrackerVars>>

\* the while condition is false: back to the for loop
ChunkerLoopExit ==
    /\ asm.pc = "while"
    /\ Len(asm.buffer) < asm.chunk_chars
    /\ asm' = [asm EXCEPT !.pc = "for"]
    /\ UNCHANGED <<now, jobs, Stores, run, TrackerVars>>

\* the page stream is exhausted: "Yield final chunk if buffer has content"
ChunkerEndOfStream ==
    /\ asm.pc = "for"
    /\ LET chunk_text == Strip(asm.buffer)
       IN  asm' = [asm EXCEPT
                     !.out = IF chunk_text # <<>>
                             THEN Append(@, Yielded(asm, chunk_text,
                                                    asm.char_position + Len(asm.buffer)))
                             ELSE @,
                     !.regions = IF chunk_text # <<>>
                                 THEN Append(@, [from |-> asm.offset,
                                                 to |-> asm.offset + Len(asm.buffer)])
                                 ELSE @,
                     !.pc = "end"]
    /\ UNCHANGED <<now, jobs, Stores, run, TrackerVars>>

(***************************************************************************)
(* SpecChunker: chunk_page_stream on every stream of at most MaxPages      *)
(* cleaned pages, for every chunk_chars, overlap_chars and bucket_size of  *)
(* the model.                                                              *)
(***************************************************************************)
InitChunker ==
    /\ now = 0
    /\ jobs = <<>>
    /\ chunks = {}
    /\ bucket_summaries = {}
    /\ final_summary = NoSummary
    /\ run = [r \in Reqs |-> IdleRun]
    /\ ops = 0
    /\ reply = NoReply
    /\ asm \in {StartAsm(chunk_chars, overlap_chars, size) :
                   chunk_chars \in 1..MaxChunkChars,
                   overlap_chars \in 0..MaxOverlapChars,
                   size \in 1..MaxBucketSize}

NextChunker ==
    \/ ChunkerReadPage
    \/ ChunkerFlush
    \/ ChunkerLoopExit
    \/ ChunkerEndOfStream

SpecChunker == InitChunker /\ [][NextChunker]_vars

(***************************************************************************)
(* api/routes/bills.py get_embed_status: the percentage is computed in     *)
(* Python floats, int((pages_processed or 0) / total_pages * 100).  A float*)
(* is [m, e]: m the significant bits, most significant first and without   *)
(* leading zeros, e the weight of the last bit as a power of two; zero has *)
(* no bits.  Division and multiplication round the exact result to         *)
(* MantissaBits bits, to nearest and to even on a tie.                     *)
(***************************************************************************)
RECURSIVE Pow2(_)
Pow2(n) == IF n = 0 THEN 1 ELSE 2 * Pow2(n - 1)

RECURSIVE BitsOfInt(_)
BitsOfInt(n) == IF n = 0 THEN <<>> ELSE Append(BitsOfInt(n \div 2), n % 2)

RECURSIVE IntOfBits(_)
IntOfBits(bits) ==
    IF bits = <<>> THEN 0
    ELSE 2 * IntOfBits(SubSeq(bits, 1, Len(bits) - 1)) + bits[Len(bits)]

\* bits + 1, one bit longer when every bit was 1
RECURSIVE Increment(_)
Increment(bits) ==
    IF bits = <<>> THEN <<1>>
    ELSE IF bits[Len(bits)] = 0 THEN [bits EXCEPT ![Len(bits)] = 1]
    ELSE Append(Increment(SubSeq(bits, 1, Len(bits) - 1)), 0)

FloatZero == [m |-> <<>>, e |-> 0]

\* the float nearest to bits * 2^e, where sticky tells that the exact value
\* has further non-zero bits below those given
RoundToFloat(bits, sticky, e) ==
    IF Len(bits) <= MantissaBits THEN [m |-> bits, e |-> e]
    ELSE LET kept == SubSeq(bits, 1, MantissaBits)
             dropped == Len(bits) - MantissaBits
             half == bits[MantissaBits + 1] = 1
             below == sticky \/ \E i \in (MantissaBits + 2)..Len(bits) : bits[i] = 1
             up == half /\ (below \/ kept[MantissaBits] = 1)
             rounded == IF up THEN Increment(kept) ELSE kept
         IN  IF Len(rounded) > MantissaBits
             THEN [m |-> SubSeq(rounded, 1, MantissaBits), e |-> e + dropped + 1]
             ELSE [m |-> rounded, e |-> e + dropped]

\* the next n bits of r / b for 0 <= r < b, and the remainder left
RECURSIVE DivBits(_, _, _, _)
DivBits(r, b, n, acc) ==
    IF n = 0 THEN [bits |-> acc, rem |-> r]
    ELSE IF 2 * r >= b THEN DivBits(2 * r - b, b, n - 1, Append(acc, 1))
    ELSE DivBits(2 * r, b, n - 1, Append(acc, 0))

\* a / b scaled by a power of two into [1, 2): b <= a < 2b
RECURSIVE Normalised(_, _, _)
Normalised(a, b, e) ==
    IF a < b THEN Normalised(2 * a, b, e - 1)
    ELSE IF a >= 2 * b THEN Normalised(a, 2 * b, e + 1)
    ELSE [a |-> a, b |-> b, e |-> e]

\* p / t in floats, for integers p >= 0 and t > 0
TrueDiv(p, t) ==
    IF p = 0 THEN FloatZero
    ELSE LET n == Normalised(p, t, 0)
             q == DivBits(n.a - n.b, n.b, MantissaBits, <<1>>)
         IN  RoundToFloat(q.bits, q.rem # 0, n.e - MantissaBits)

\* bits * k for a small integer k, from the last bit (at index i) up
RECURSIVE TimesSmall(_, _, _, _, _)
TimesSmall(bits, k, i, carry, acc) ==
    IF i = 0 THEN BitsOfInt(carry) \o acc
    ELSE IF (bits[i] * k + carry) % 2 = 1
         THEN TimesSmall(bits, k, i - 1, (bits[i] * k + carry) \div 2, <<1>> \o acc)
         ELSE TimesSmall(bits, k, i - 1, (bits[i] * k + carry) \div 2, <<0>> \o acc)

\* f * k in floats, k an integer a float holds exactly
FloatTimes(f, k) ==
    IF f.m = <<>> THEN FloatZero
    ELSE RoundToFloat(TimesSmall(f.m, k, Len(f.m), 0, <<>>), FALSE, f.e)

\* int(f) for f >= 0: the bits of weight 2^0 and above
FloatToInt(f) ==
    IF f.e >= 0 THEN IntOfBits(f.m) * Pow2(f.e)
    ELSE IF Len(f.m) + f.e <= 0 THEN 0
    ELSE IntOfBits(SubSeq(f.m, 1, Len(f.m) + f.e))

\* progress_pct = 0
\* if status['total_pages'] and status['total_pages'] > 0:
\*     progress_pct = int((status['pages_processed'] or 0) / status['total_pages'] * 100)
progress_pct(total_pages, pages_processed) ==
    IF total_pages # Null /\ total_pages > 0
    THEN FloatToInt(FloatTimes(TrueDiv(OrZero(pages_processed), total_pages), 100))
    ELSE 0

\* the "progress" part of the response of get_embed_status
StatusResponse(job_id, status) ==
    [job_id |-> job_id,
     total_pages |-> status.total_pages,
     pages_processed |-> OrZero(status.pages_processed),
     percentage |-> progress_pct(status.total_pages, status.pages_processed)]

(***************************************************************************)
(* SpecStatus: one job is created, the embedder reports its page count and *)
(* its progress (never more pages than the document has), and a client     *)
(* polls GET /embed-status/{job_id} once, at any point of the progress.    *)
(***************************************************************************)
StatusCreate ==
    /\ reply = NoReply
    /\ jobs = <<>>
    /\ \E total_pages \in {Null} \cup 0..MaxStatusPages :
          jobs' = create_job(jobs, TheDoc, total_pages, now)
    /\ UNCHANGED <<now, Stores, run, TrackerVars, asm>>

StatusProgress ==
    /\ reply = NoReply
    /\ jobs # <<>>
    /\ \E total_pages \in {Null} \cup 0..MaxStatusPages,
          pages_processed \in {Null} \cup 0..MaxStatusPages :
          /\ jobs' = Embedder_update_job_progress(jobs, 1, total_pages,
                                                   pages_processed, Null)
          /\ jobs'[1].total_pages # Null
                 => OrZero(jobs'[1].pages_processed) <= jobs'[1].total_pages
    /\ UNCHANGED <<now, Stores, run, TrackerVars, asm>>

\* status = await job_manager.get_job_status(job_id); a job that is not
\* found is answered by HTTPException(404) and leaves no response
StatusGet ==
    /\ reply = NoReply
    /\ \E job_id \in DOMAIN jobs :
          reply' = StatusResponse(job_id, jobs[job_id])
    /\ UNCHANGED <<now, jobs, Stores, run, ops, asm>>

NextStatus ==
    \/ StatusCreate
    \/ StatusProgress
    \/ StatusGet

SpecStatus == Init /\ [][NextStatus]_vars

(***************************************************************************)
(* Properties.                                                             *)
(***************************************************************************)
JobOf(r) == jobs[run[r].job_id]
HasJob(r) == run[r].job_id # 0
Ended(r) == run[r].pc \in {"done", "task_died"}

\* C1: once a job has status completed or failed, no later operation on it
\* (embedder or summarizer progress update, update_status, complete) changes
\* its status.
C1_TerminalStatusIsKept ==
    [][\A j \in DOMAIN jobs :
          Terminal(jobs[j].status) => jobs'[j].status = jobs[j].status]_vars

\* C2: under every interleaving of concurrent embed requests for the same
\* document there is at most one pending or processing job of that document
\* that started within the recency window.
C2_AtMostOneActiveRecentJob ==
    Cardinality(ActiveRecent(jobs, TheDoc, now)) <= 1

\* no job was created by a request that another request's create_job had
\* overtaken between its check and its create
NoOvertakenCreate == \A r \in Reqs : HasJob(r) => ~run[r].overtaken

\* C2 (amended): as long as no create_job of another request ran between the
\* get_or_create_job and the create_job of any request, there is at most one
\* pending or processing job of the document that started within the window.
C2_AtMostOneActiveRecentJobUnlessOvertaken ==
    NoOvertakenCreate => Cardinality(ActiveRecent(jobs, TheDoc, now)) <= 1

\* two jobs, none from an overtaken request: the older one is still not
\* terminal but has left the window, the newer one is the only recent one
C2_Witness ==
    /\ NoOvertakenCreate
    /\ Len(jobs) = 2
    /\ jobs[1].status \in {"pending", "processing"}
    /\ jobs[1].started_at <= now - RecencyWindow
    /\ ActiveRecent(jobs, TheDoc, now) = {2}

\* embed_bill of the run has returned to run_embedding_job and no later
\* step of the run has been taken
EmbedReturned(r) == run[r].pc = "map_fetch"

\* C3: whenever embed_bill run under a tracked job returns without raising,
\* the persisted chunks are exactly the chunks of the stream and the job's
\* chunks_embedded equals their number N (for the "Already embedded" return,
\* which reads no stream, N is whatever makes the two agree).
C3_EmbedCoversStream ==
    \A r \in Reqs :
        EmbedReturned(r) =>
            \E n \in 0..(MaxChunks + 1) :
                /\ ~run[r].skipped => n = run[r].n
                /\ chunks = StreamRows(n)
                /\ OrZero(JobOf(r).chunks_embedded) = n

\* C3 (amended): whenever embed_bill, with no other pipeline of the document
\* running, returns without raising and was not the "Already embedded"
\* return, the persisted chunks are exactly the chunks of the stream and
\* chunks_embedded equals their number.
C3_EmbedCoversStreamUnlessSkipped ==
    \A r \in Reqs :
        EmbedReturned(r) /\ ~run[r].skipped =>
            /\ chunks = StreamRows(run[r].n)
            /\ OrZero(JobOf(r).chunks_embedded) = run[r].n

\* a forced run over a stream of exactly one full batch has returned, on a
\* store the first run had written to
C3_Witness ==
    /\ EmbedReturned(2)
    /\ run[2].force
    /\ run[2].n = batch_size
    /\ run[1].written # {}
    /\ chunks = StreamRows(batch_size)

\* the embed phase of the run has persisted its last batch (or was the
\* "Already embedded" return)
EmbedOver(rec) == rec.skipped \/ (rec.n # Null /\ rec.written = 0..(rec.n - 1))

\* C4: within one run the stages are sequential: the run is in its map phase,
\* and a BucketSummary is written, only after the embed phase has persisted
\* its last batch; the reduce phase is entered only when the map loop has
\* iterated over every bucket, and the FinalSummary is written from there.
C4_StagesSequential ==
    [][\A r \in Reqs :
          /\ run'[r].pc \in {"map_fetch", "map_bucket", "map_progress"}
                => EmbedOver(run'[r])
          /\ (bucket_summaries' # bucket_summaries /\ run'[r] # run[r])
                => (run[r].pc = "map_bucket" /\ EmbedOver(run[r]))
          /\ (run'[r].pc = "reduce_fetch" /\ run[r].pc # "reduce_fetch")
                => \/ /\ run[r].pc = "map_fetch"
                      /\ chunks = {}
                   \/ /\ run[r].pc \in {"map_bucket", "map_progress"}
                      /\ run[r].map_i + 1 = Len(run[r].buckets_data)
          /\ (final_summary' # final_summary /\ run'[r] # run[r])
                => run[r].pc = "reduce_store"]_vars

\* a run that embedded three chunks in two batches holds a final summary
\* generated from the summaries of both buckets
C4_Witness ==
    \E r \in Reqs :
        /\ run[r].pc = "reduce_store"
        /\ run[r].written = 0..2
        /\ Len(run[r].reduce_text) = 2

StageRaised(r) == run[r].exc_stage \in {"embed", "map", "reduce"}

FailedWithError(job) ==
    /\ job.status = "failed"
    /\ job.error_message # NoText
    /\ job.completed_at # Null

C6_RaisingReduceWritesNoFinalSummary ==
    \A r \in Reqs : run[r].exc_stage = "reduce" => ~run[r].stored_final

EmbeddingRaised(r) == run[r].exc_msg = "embedding error"

\* the run persisted the batches before its last embedding call, and nothing
\* of that batch or of a later one; it is in no map or reduce step
AbortedAtLastCall(r) ==
    /\ run[r].written = 0..((run[r].embed_calls - 1) * batch_size - 1)
    /\ run[r].pc \in {"except", "outer_except", "done", "task_died"}
    /\ ~run[r].stored_final

ErrorStored(r) ==
    /\ FailedWithError(JobOf(r))
    /\ JobOf(r).error_message \in {run[r].exc_msg, JobFailed(run[r].exc_msg)}

C8_ForceReplacesChunkSet ==
    \A r \in Reqs :
        EmbedReturned(r) /\ run[r].force =>
            /\ {c.chunk_index : c \in chunks} = 0..(run[r].n - 1)
            /\ Cardinality(chunks) = run[r].n

\* the first run persisted MaxChunks chunks, the forced second run embedded a
\* shorter stream
C8_Witness ==
    /\ EmbedReturned(2)
    /\ run[2].force
    /\ run[1].written = 0..(MaxChunks - 1)
    /\ run[2].n = MaxChunks - 1
    /\ Cardinality(chunks) = MaxChunks - 1

\* C9: embed_bill with force=False on a document that has a persisted chunk
\* is a no-op: its step changes no chunk row and no job field, calls the
\* embedding capability not at all, and leaves embed_bill.
C9_AlreadyEmbeddedIsNoOp ==
    [][\A r \in Reqs :
          (/\ run[r].pc = "embed_begin"
           /\ ~run[r].force
           /\ chunks # {}
           /\ run'[r] # run[r])
          => /\ chunks' = chunks
             /\ jobs' = jobs
             /\ run'[r].embed_calls = run[r].embed_calls
             /\ run'[r].written = run[r].written
             /\ run'[r].pc \in {"map_fetch", "except"}]_vars

\* a run returned at "Already embedded" from a store that holds one chunk
C9_Witness ==
    \E r \in Reqs :
        /\ EmbedReturned(r)
        /\ run[r].skipped
        /\ Cardinality(chunks) = 1
        /\ run[r].embed_calls = 0

\* what one run over a stream of n chunks leaves when every call succeeds
SingleRunBucketSummaries(n) ==
    LET buckets_data == FetchBuckets(StreamRows(n))
    IN  {[bucket_id |-> buckets_data[k].bucket_id,
          page_start |-> buckets_data[k].page_start,
          page_end |-> buckets_data[k].page_end,
          summary_text |-> BucketSummaryText(buckets_data[k])] : k \in 1..Len(buckets_data)}

\* C10: when two pipelines of the same document run concurrently and both
\* have completed, the persisted state is one a single run leaves: every
\* chunk of the stream once, bucket summaries computed from all chunks of
\* their bucket, and the final summary generated from those summaries.
C10_ConcurrentRunsIdempotent ==
    (\A r \in Reqs : run[r].pc = "done" /\ JobOf(r).status = "completed") =>
        /\ chunks = StreamRows(MaxChunks)
        /\ bucket_summaries \subseteq SingleRunBucketSummaries(MaxChunks)
        /\ final_summary = FinalRow(FinalSummaryText(FetchBucketSummaries(bucket_summaries)))

\* the jobs of doc that are pending or processing and started less than
\* RecencyWindow minutes ago
ReuseCandidates(doc) ==
    {j \in DOMAIN jobs : /\ jobs[j].doc = doc
                         /\ jobs[j].status \in {"pending", "processing"}
                         /\ now - jobs[j].started_at < RecencyWindow}

\* C11: get_or_reuse(doc) returns the id of a job of doc that is pending or
\* processing and started within the last 30 minutes, the most recently
\* started one, and none when there is no such job; the call modifies no
\* job (a stale non-terminal job keeps its status).
C11_GetOrReuseReturnsRecentActive ==
    [][reply' # reply =>
          /\ jobs' = jobs
          /\ IF ReuseCandidates(reply'.doc) = {}
             THEN reply'.job_id = 0
             ELSE /\ reply'.job_id \in ReuseCandidates(reply'.doc)
                  /\ \A k \in ReuseCandidates(reply'.doc) :
                        jobs[k].started_at <= jobs[reply'.job_id].started_at]_vars

\* job 1 of the document was pending and stale when the second operation,
\* get_or_create_job, returned None; the third operation created job 2, and
\* job 1 is still pending
C11_Witness ==
    /\ ops = 3
    /\ Len(jobs) = 2
    /\ reply = [doc |-> TheDoc, job_id |-> 0, op |-> 2]
    /\ jobs[1].doc = TheDoc
    /\ jobs[1].status = "pending"
    /\ jobs[2].doc = TheDoc
    /\ jobs[2].status = "pending"
    /\ jobs[2].started_at - jobs[1].started_at >= RecencyWindow

\* some progress field of the job is written by the step
ProgressWritten(j) ==
    \/ jobs'[j].total_pages # jobs[j].total_pages
    \/ jobs'[j].pages_processed # jobs[j].pages_processed
    \/ jobs'[j].chunks_embedded # jobs[j].chunks_embedded
    \/ jobs'[j].map_summaries_done # jobs[j].map_summaries_done
    \/ jobs'[j].reduce_done # jobs[j].reduce_done

\* C12: a progress update applied to a pending job, by the embedder or by
\* the summarizer, leaves the job in status processing.
C12_ProgressMakesPendingProcessing ==
    [][\A j \in DOMAIN jobs :
          (jobs[j].status = "pending" /\ ProgressWritten(j))
              => jobs'[j].status = "processing"]_vars

\* C13: create yields a pending job; update_progress(pages_processed=10)
\* then yields processing with pages_processed = 10; complete(success=true)
\* then yields completed with completed_at set and error_message null; a
\* further complete(success=false, error=x) overwrites the status to failed
\* with error_message x.
C13_Lifecycle ==
    /\ ops >= 1 => Len(jobs) = 1
    /\ ops = 1 => jobs[1].status = "pending"
    /\ ops = 2 => jobs[1].status = "processing" /\ jobs[1].pages_processed = 10
    /\ ops = 3 => /\ jobs[1].status = "completed"
                  /\ jobs[1].completed_at # Null
                  /\ jobs[1].error_message = NoText
    /\ ops = 4 => /\ jobs[1].status = "failed"
                  /\ jobs[1].error_message = "x"
                  /\ jobs[1].completed_at # Null

\* the four calls are made, the last one some time after the job started
C13_Witness ==
    /\ ops = 4
    /\ jobs[1].status = "failed"
    /\ jobs[1].error_message = "x"
    /\ jobs[1].pages_processed = 10
    /\ jobs[1].completed_at > jobs[1].started_at

\* C14: for a job driven by the pipeline the stored pages_processed,
\* chunks_embedded and map_summaries_done never decrease, and reduce_done
\* never changes from true to false.
C14_ProgressNeverDecreases ==
    [][\A j \in DOMAIN jobs :
          /\ OrZero(jobs'[j].pages_processed) >= OrZero(jobs[j].pages_processed)
          /\ OrZero(jobs'[j].chunks_embedded) >= OrZero(jobs[j].chunks_embedded)
          /\ OrZero(jobs'[j].map_summaries_done) >= OrZero(jobs[j].map_summaries_done)
          /\ jobs[j].reduce_done = "true" => jobs'[j].reduce_done = "true"]_vars

\* a job went through two batches, two buckets and the reduce phase
C14_Witness ==
    \E j \in DOMAIN jobs :
        /\ jobs[j].pages_processed = MaxChunks * PagesPerChunk
        /\ jobs[j].chunks_embedded = MaxChunks
        /\ jobs[j].map_summaries_done = 2
        /\ jobs[j].reduce_done = "true"

\* C15: the reduce phase invoked on a document without BucketSummary rows
\* raises; it obtains no generated text, writes no FinalSummary and does not
\* set reduce_done, neither in that step nor in the steps of the handlers
\* that follow.
C15_ReduceWithoutSummariesRaises ==
    [][\A r \in Reqs :
          /\ (run[r].pc = "reduce_fetch" /\ bucket_summaries = {} /\ run'[r] # run[r])
                => /\ run'[r].pc = "except"
                   /\ run'[r].exc_stage = "reduce"
                   /\ run'[r].reduce_text = NoSummary
                   /\ final_summary' = final_summary
                   /\ jobs' = jobs
          /\ (run[r].exc_msg = "No bucket summaries found" /\ run'[r] # run[r])
                => /\ final_summary' = final_summary
                   /\ jobs'[run[r].job_id].reduce_done = jobs[run[r].job_id].reduce_done
                   /\ ~run'[r].stored_final]_vars

\* a run over a document without chunks: the reduce phase raised, the job is
\* failed, and there is neither a FinalSummary nor reduce_done
C15_Witness ==
    \E r \in Reqs :
        /\ run[r].pc = "done"
        /\ run[r].n = 0
        /\ run[r].exc_msg = "No bucket summaries found"
        /\ JobOf(r).status = "failed"
        /\ JobOf(r).reduce_done # "true"
        /\ final_summary = NoSummary

\* C16: when the generation call fails for a bucket, the map phase goes on
\* with the next bucket (or returns after the last one), and the input of
\* the following reduce phase holds no summary of a bucket whose generation
\* call failed in this run, whatever earlier runs stored.
C16_FailedBucketMissingFromReduce ==
    [][\A r \in Reqs :
          /\ (run[r].pc = "map_bucket" /\ run'[r].failed # run[r].failed)
                => \/ /\ run'[r].pc = "map_bucket"
                      /\ run'[r].map_i = run[r].map_i + 1
                   \/ /\ run'[r].pc = "reduce_fetch"
                      /\ run[r].map_i + 1 = Len(run[r].buckets_data)
          /\ (run[r].pc = "reduce_fetch" /\ run'[r].pc = "reduce_store")
                => run'[r].reduce_text =
                     FinalSummaryText(FetchBucketSummaries(
                        {s \in bucket_summaries : s.bucket_id \notin run[r].failed}))]_vars

\* C17: an empty text returned by the generation capability is a failure:
\* no BucketSummary and no FinalSummary is persisted from it, and the reduce
\* phase does not go on to store it.
C17_EmptyTextIsFailure ==
    /\ \A s \in bucket_summaries : s.summary_text # EmptyText
    /\ final_summary # FinalRow(EmptyText)
    /\ \A r \in Reqs : run[r].pc = "reduce_store" => run[r].reduce_text # EmptyText

\* C18: the chunks the assembler has yielded carry chunk_index 0, 1, 2, ...
\* in the order of emission, without gap or repeat, also after a candidate
\* chunk without text was skipped and for the final flushed chunk.
C18_ChunkIndexDense ==
    \A k \in 1..Len(asm.out) : asm.out[k].chunk_index = k - 1

\* the stream has ended after a blank candidate was skipped, and the final
\* flush yielded the last of at least two chunks
C18_Witness ==
    /\ asm.pc = "end"
    /\ asm.skipped_blank
    /\ Len(asm.out) >= 2
    /\ asm.out[Len(asm.out)].text = Strip(asm.buffer)

\* C19: every chunk has bucket_id = (page_start - 1) div bucket_size and
\* 1 <= page_start <= page_end, and bucket_id does not decrease as
\* chunk_index increases.
C19_BucketIdFollowsPageStart ==
    \A k \in 1..Len(asm.out) :
        /\ asm.out[k].bucket_id * asm.bucket_size <= asm.out[k].page_start - 1
        /\ asm.out[k].page_start - 1 < (asm.out[k].bucket_id + 1) * asm.bucket_size
        /\ 1 <= asm.out[k].page_start
        /\ asm.out[k].page_start <= asm.out[k].page_end
        /\ k > 1 => asm.out[k - 1].bucket_id <= asm.out[k].bucket_id

\* a stream whose chunks start in bucket 0 and end in a later bucket, one of
\* them spanning more than one page
C19_Witness ==
    /\ asm.pc = "end"
    /\ Len(asm.out) >= 2
    /\ asm.out[1].bucket_id = 0
    /\ asm.out[Len(asm.out)].bucket_id >= 1
    /\ \E k \in 1..Len(asm.out) : asm.out[k].page_start < asm.out[k].page_end

\* C20: each pass of the flush loop, which runs while the buffer is at
\* least chunk_chars long, strictly shortens the buffer.
C20_FlushShortensBuffer ==
    [][(asm.pc = "while" /\ asm'.pc = "while" /\ asm' # asm)
          => Len(asm'.buffer) < Len(asm.buffer)]_vars

\* the text of the pages read so far has a character that is not a space
HasText(text) == \E i \in 1..Len(text) : text[i] # " "

\* the cleaned text length over all pages read: source without the one
\* separator chunk_page_stream puts before each page
CleanedLength(a) == Len(a.source) - a.page_num

\* C21: a document with at least one non-empty page whose cleaned text over
\* all pages is shorter than chunk_chars yields exactly one chunk: index 0,
\* page_start 1, page_end the last page, bucket 0, holding the whole text.
C21_ShortDocumentOneChunk ==
    (asm.pc = "end" /\ HasText(asm.source) /\ CleanedLength(asm) < asm.chunk_chars)
        => /\ Len(asm.out) = 1
           /\ asm.out[1].chunk_index = 0
           /\ asm.out[1].page_start = 1
           /\ asm.out[1].page_end = asm.page_num
           /\ asm.out[1].bucket_id = 0
           /\ asm.out[1].text = Strip(asm.source)

\* C22: the percentage of a job status is 0 when total_pages is null or 0,
\* and otherwise the integer part of 100 * pages_processed / total_pages,
\* a null pages_processed counting as 0.
C22_PercentageIsIntegerPart ==
    reply # NoReply =>
        reply.percentage =
            IF reply.total_pages = Null \/ reply.total_pages = 0 THEN 0
            ELSE (100 * reply.pages_processed) \div reply.total_pages

\* position i of source (counted from 0) holds a character of a page, not
\* the separator put before the page
IsPageChar(a, i) == i > 0 /\ a.page_of[i + 1] = a.page_of[i]

\* position i of source lies in the span of some yielded chunk
Covered(a, i) == \E k \in 1..Len(a.regions) : a.regions[k].from <= i /\ i < a.regions[k].to

\* the part of source the assembler is done with: what lies before the
\* buffer, and everything once the stream has ended
DoneUpTo(a) == IF a.pc = "end" THEN Len(a.source) ELSE a.offset

\* a flush pass that yields a chunk leaves a buffer that starts with the
\* last overlap_chars characters of the chunk's span (the whole span when it
\* is shorter) and goes on with everything that followed the span
OverlapKept ==
    (asm.pc = "while" /\ asm'.pc = "while" /\ Len(asm'.out) = Len(asm.out) + 1)
        => LET region == asm'.regions[Len(asm'.regions)]
               kept == Min(asm.overlap_chars, region.to - region.from)
           IN  /\ region.from = asm.offset
               /\ asm'.offset = region.to - kept
               /\ asm'.buffer = SubSeq(asm.source, asm'.offset + 1, Len(asm.source))

\* C23 as stated: the next buffer starts with the last overlap_chars
\* characters of the emitted region, and every character of the pages' text
\* the assembler is done with lies in the span of some chunk.
C23_OverlapAndFullCoverage ==
    /\ [][OverlapKept]_vars
    /\ [](\A i \in 0..(DoneUpTo(asm) - 1) : IsPageChar(asm, i) => Covered(asm, i))

\* C23, amended: the same, for every character that is not a space.
C23_OverlapAndTextCoverage ==
    /\ [][OverlapKept]_vars
    /\ [](\A i \in 0..(DoneUpTo(asm) - 1) :
              asm.source[i + 1] # " " => Covered(asm, i))

\* the stream has ended with at least two chunks, the second beginning
\* inside the span of the first, and the last chunk reaching the end of the
\* text
C23_Witness ==
    /\ asm.pc = "end"
    /\ Len(asm.out) >= 2
    /\ asm.overlap_chars >= 1
    /\ asm.regions[2].from < asm.regions[1].to
    /\ asm.regions[2].to > asm.regions[1].to
    /\ asm.regions[Len(asm.regions)].to = Len(asm.source)

\* the page the first character of the k-th chunk's text came with
FirstPageOf(a, k) ==
    a.page_of[SetMin({i \in (a.regions[k].from + 1)..a.regions[k].to : a.source[i] # " "})]

\* C24: the page_start of every chunk is no earlier than the first page that
\* gives a character to the chunk's text, the overlap at its start included;
\* so a chunk whose text comes only from pages above bucket_size is in a
\* bucket other than bucket 0.
C24_PageStartFollowsContent ==
    \A k \in 1..Len(asm.out) :
        /\ asm.out[k].page_start >= FirstPageOf(asm, k)
        /\ FirstPageOf(asm, k) > asm.bucket_size => asm.out[k].bucket_id >= 1

\* C25: when the map phase of a tracked job has ended, map_summaries_done
\* of the job is the number of buckets whose BucketSummary this run has
\* persisted, whichever buckets failed.
C25_MapSummariesDoneCountsSummaries ==
    \A r \in Reqs :
        (run[r].pc = "reduce_fetch" /\ HasJob(r))
            => OrZero(JobOf(r).map_summaries_done) = Cardinality(run[r].summarized)

\* run r1 failed in its embed phase after persisting some but not all of
\* its batches, and run r2, requested after it, has ended with its job
\* completed
RetriedAfterPartialEmbed(r1, r2) ==
    /\ r1 # r2
    /\ Ended(r1) /\ run[r1].exc_stage = "embed"
    /\ run[r1].n # Null
    /\ run[r1].written # {} /\ run[r1].written # 0..(run[r1].n - 1)
    /\ HasJob(r2) /\ run[r2].job_id > run[r1].job_id
    /\ run[r2].pc = "done" /\ JobOf(r2).status = "completed"

\* the rows a run has persisted
WrittenRows(rec) == {ChunkOf(rec.n, i) : i \in rec.written}

\* C26: after a run that failed in the embed phase with some but not all
\* batches persisted, a later run with force=false that ends completed
\* leaves the document with the complete chunk set of the stream.
C26_RetryCompletesChunkSet ==
    \A r1, r2 \in Reqs :
        (RetriedAfterPartialEmbed(r1, r2) /\ ~run[r2].force)
            => chunks = StreamRows(run[r1].n)

\* C26, amended: such a later run leaves the complete chunk set of its
\* stream when it was started with force=true; started with force=false it
\* takes the "Already embedded" return and leaves the partial set of the
\* failed run as it was.
C26_RetryCompletesChunkSetWhenForced ==
    \A r1, r2 \in Reqs :
        RetriedAfterPartialEmbed(r1, r2)
            => IF run[r2].force
               THEN chunks = StreamRows(run[r2].n)
               ELSE run[r2].skipped /\ chunks = WrittenRows(run[r1])

\* a run with force=false has completed after a run that failed with the
\* first batch of three chunks persisted, and a FinalSummary is stored
C26_Witness ==
    /\ RetriedAfterPartialEmbed(1, 2)
    /\ ~run[2].force
    /\ run[1].n = 3 /\ run[1].written = {0, 1}
    /\ final_summary # NoSummary

\* C27: a job of a pipeline run that has status completed has
\* reduce_done = true, and the FinalSummary of its document is persisted.
C27_CompletedHasFinalSummary ==
    \A r \in Reqs :
        (HasJob(r) /\ JobOf(r).status = "completed")
            => /\ JobOf(r).reduce_done = "true"
               /\ final_summary # NoSummary

\* both runs have ended, one with its job completed and one with its job
\* failed
C27_Witness ==
    /\ \A r \in Reqs : Ended(r) /\ HasJob(r)
    /\ \E r \in Reqs : JobOf(r).status = "completed" /\ run[r].stored_final
    /\ \E r \in Reqs : JobOf(r).status = "failed"

\* C28: a job of a pipeline run that has status completed has a non-null
\* total_pages and pages_processed = total_pages, and at all times
\* pages_processed of a job is at most its total_pages once that is set.
C28_CompletedReportsAllPages ==
    \A r \in Reqs :
        HasJob(r) =>
            /\ JobOf(r).status = "completed"
                  => /\ JobOf(r).total_pages # Null
                     /\ JobOf(r).pages_processed = JobOf(r).total_pages
            /\ JobOf(r).total_pages # Null
                  => OrZero(JobOf(r).pages_processed) <= JobOf(r).total_pages

\* the background task of request r has been created for its job
Launched(r) == run[r].pc = "run_start"

\* the job of request r is completed or failed
JobTerminal(r) == HasJob(r) /\ Terminal(JobOf(r).status)

C30_ReduceReadsCurrentBuckets ==
    [][\A r \in Reqs :
          (run[r].pc = "reduce_fetch" /\ run'[r].pc = "reduce_store")
              => \A s \in bucket_summaries :
                    s.bucket_id \in {c.bucket_id : c \in chunks}]_vars

====
